---- MODULE Spec2Model ----
(***************************************************************************)
(* Cart / checkout domain logic of the QKart backend                       *)
(* (src/src/services/cart.service.js, src/src/models/user.model.js).       *)
(*                                                                         *)
(* Every service function is an async function: the code between two       *)
(* `await`s runs atomically on the single JavaScript thread, and other     *)
(* requests may run at each `await` that reads or writes the store.  One   *)
(* action below is one handler from one store access to the next: the      *)
(* access itself and the code that follows it up to the next access.  The  *)
(* products collection is only read, and a handler's reads of it are taken *)
(* together with its read of the cart.  pc[p] is the position of request   *)
(* slot p.                                                                 *)
(***************************************************************************)
EXTENDS Integers, Sequences, FiniteSets, TLC

(* ---------------------------- bounds ---------------------------------- *)
\* largest quantity a caller passes
MaxQty == 2
\* walletMoney of the user when the model starts
InitWallet == 4
\* largest cost the catalog gives a product
MaxCost == 2

\* concurrent request slots (each runs one service call at a time)
Procs == {"r1", "r2"}

\* the authenticated user every request is made for
UserId == "u1"
UserEmail == "u1@qkart"

\* identifiers a caller may pass; "p9" is not in the products collection
KnownProducts == {"p1", "p2"}
ProductIds == KnownProducts \cup {"p9"}
Quantities == 1..MaxQty
\* costs a product of the catalog may have
Costs == 1..MaxCost

\* null / undefined, as a document value
Null == [isNull |-> TRUE]
\* no product id (calls that take none)
NoId == "none"

\* config.default_address, the sentinel of "no address configured"
DefaultAddress == "ADDRESS_NOT_SET"
Addresses == {DefaultAddress, "home"}

VARIABLES
    products,    \* the "products" collection: id -> cost
    carts,       \* the "carts" collection: a set of cart documents
    wallet,      \* persisted walletMoney of the user
    address,     \* persisted address of the user
    nCreated,    \* number of successful Cart.create calls so far (history)
    pc,          \* per request slot: position in its handler
    op,          \* per request slot: the service function it runs
    args,        \* per request slot: [productId, quantity] of the call
    user,        \* per request slot: the in-memory user document of a checkout
    cartDoc,     \* per request slot: the in-memory cart document (CartDoc/userCart)
    productDoc,  \* per request slot: the in-memory ProductDoc
    cartItems,   \* per request slot: the line items a checkout read (cartItems)
    res,         \* per request slot: what the call returned or threw
    before       \* history: the call in progress and the store when it began
                 \* (recorded only when calls are made one at a time)

store == <<products, carts, wallet, address, nCreated>>
call == <<op, before>>
vars == <<products, carts, wallet, address, nCreated,
          pc, op, args, user, cartDoc, productDoc, cartItems, res, before>>

(* ------------------------- documents ---------------------------------- *)
NoArgs == [productId |-> NoId, quantity |-> 0]
NoRes == [status |-> "none", message |-> "", value |-> Null]

\* new ApiError(status, message)
ApiError(status, message) == [status |-> status, message |-> message, value |-> Null]
\* a resolved promise
Ok(value) == [status |-> "OK", message |-> "", value |-> value]
\* a rejection raised by the store itself (not an ApiError)
StoreError == [status |-> "STORE_ERROR", message |-> "store rejected the write", value |-> Null]

\* { product: ProductDoc, quantity }
Item(pd, q) == [product |-> pd, quantity |-> q]

\* a cart document
CartOf(id, email, items) == [id |-> id, email |-> email, cartItems |-> items]

(* --------------------- store collaborators ----------------------------- *)
\* The service reaches the collections through findOne, findById, create and
\* save.  A cart is kept under the identity of its user, so a second create
\* for the same user is refused; a save writes the whole in-memory document
\* back over the stored one; any write may be rejected by the store.
\* Product.findById(productId)
FindProductById(productId) ==
    IF productId \in DOMAIN products
    THEN [id |-> productId, cost |-> products[productId]]
    ELSE Null

\* Cart.findOne({ email }): the documents the query may resolve to
FindOneCart(email) ==
    IF \E c \in carts : c.email = email
    THEN {c \in carts : c.email = email}
    ELSE {Null}

\* Cart.create(doc) can be persisted: the key is free
CanCreate(doc) == \A c \in carts : c.id # doc.id

\* doc.save() persisted: the stored document is replaced by the in-memory one
SaveCart(doc) == {c \in carts : c.id # doc.id} \cup {doc}

(* ----------------------- pure helpers ---------------------------------- *)
\* faulty variant of HasProduct: the membership test never matches
HasProductNever(items, productId) == FALSE

\* faulty variant of HasProduct: only the first line item is compared
HasProductFirstOnly(items, productId) ==
    Len(items) > 0 /\ items[1].product.id = productId

\* cartItems.some((items) => items.product._id == productId)
HasProduct(items, productId) ==
    \E i \in 1..Len(items) : items[i].product.id = productId

\* cartItems.forEach((ele, i) => { if (ele.product._id.toString() === productId) index = i })
\* with index starting at -1 (0-based): the last matching position
MatchIndex(items, productId) ==
    LET hits == {i \in 1..Len(items) : items[i].product.id = productId}
    IN IF hits = {} THEN -1 ELSE (CHOOSE i \in hits : \A j \in hits : j <= i) - 1

\* faulty variant of Splice: splice(index), which removes up to the end
SpliceToEnd(items, index) ==
    LET n == Len(items)
        start == IF index < 0 THEN (IF n + index < 0 THEN 0 ELSE n + index) ELSE index
    IN SubSeq(items, 1, IF start < n THEN start ELSE n)

\* cartItems.splice(index, 1) for a 0-based index; a negative index counts
\* from the end of the array
Splice(items, index) ==
    LET n == Len(items)
        start == IF index < 0 THEN (IF n + index < 0 THEN 0 ELSE n + index) ELSE index
    IN [i \in 1..(IF start < n THEN n - 1 ELSE n) |->
            IF i <= start THEN items[i] ELSE items[i + 1]]

\* faulty variant of SetQuantity: the quantity is added to the old one
AddQuantity(items, productId, quantity) ==
    [i \in 1..Len(items) |->
        IF items[i].product.id = productId
        THEN [items[i] EXCEPT !.quantity = @ + quantity]
        ELSE items[i]]

\* cartItems.map((items) => { if (id matches) items.quantity = quantity })
SetQuantity(items, productId, quantity) ==
    [i \in 1..Len(items) |->
        IF items[i].product.id = productId
        THEN [items[i] EXCEPT !.quantity = quantity]
        ELSE items[i]]

\* faulty variant of Total: the quantity is left out of the sum
RECURSIVE TotalOfCosts(_)
TotalOfCosts(items) ==
    IF items = <<>> THEN 0
    ELSE TotalOfCosts(SubSeq(items, 1, Len(items) - 1))
         + items[Len(items)].product.cost

\* faulty variant of Total: each line item is priced by a fresh catalog read
RECURSIVE TotalAtCatalogCost(_)
TotalAtCatalogCost(items) ==
    IF items = <<>> THEN 0
    ELSE TotalAtCatalogCost(SubSeq(items, 1, Len(items) - 1))
         + items[Len(items)].quantity * products[items[Len(items)].product.id]

\* total = total + element.quantity * element.product.cost, over cartItems
RECURSIVE Total(_)
Total(items) ==
    IF items = <<>> THEN 0
    ELSE Total(SubSeq(items, 1, Len(items) - 1))
         + items[Len(items)].quantity * items[Len(items)].product.cost

\* userSchema.methods.hasSetNonDefaultAddress
hasSetNonDefaultAddress(u) == u.address # DefaultAddress

\* faulty variant of ProductMissing: the product check is skipped
ProductMissingNever(ProductDoc) == FALSE

\* if (!ProductDoc)
ProductMissing(ProductDoc) == ProductDoc = Null

\* faulty variant of CheckoutError: the balance is checked before the address
CheckoutErrorBalanceFirst(u, userCart) ==
    IF userCart = Null
    THEN ApiError("NOT_FOUND", "User does not have a cart")
    ELSE IF Len(userCart.cartItems) = 0
    THEN ApiError("BAD_REQUEST", "User's cart doesn't have any product")
    ELSE IF u.walletMoney < Total(userCart.cartItems)
    THEN ApiError("BAD_REQUEST", "Wallet balance is insufficient")
    ELSE IF ~hasSetNonDefaultAddress(u)
    THEN ApiError("BAD_REQUEST", "Address not set")
    ELSE NoRes

\* faulty variant of CheckoutError: the balance is not compared with the total
CheckoutErrorNoBalanceCheck(u, userCart) ==
    IF userCart = Null
    THEN ApiError("NOT_FOUND", "User does not have a cart")
    ELSE IF Len(userCart.cartItems) = 0
    THEN ApiError("BAD_REQUEST", "User's cart doesn't have any product")
    ELSE IF ~hasSetNonDefaultAddress(u)
    THEN ApiError("BAD_REQUEST", "Address not set")
    ELSE NoRes

\* the checks of checkout, in the order the code makes them: the ApiError
\* thrown, or NoRes when every check passes
CheckoutError(u, userCart) ==
    IF userCart = Null
    THEN ApiError("NOT_FOUND", "User does not have a cart")
    ELSE IF Len(userCart.cartItems) = 0
    THEN ApiError("BAD_REQUEST", "User's cart doesn't have any product")
    ELSE IF ~hasSetNonDefaultAddress(u)
    THEN ApiError("BAD_REQUEST", "Address not set")
    ELSE IF u.walletMoney < Total(userCart.cartItems)
    THEN ApiError("BAD_REQUEST", "Wallet balance is insufficient")
    ELSE NoRes

(* ------------------------ initial state -------------------------------- *)
\* no history is kept: requests run concurrently
Off == [recording |-> FALSE]
Recording == before.recording

\* the store as a call finds it, with the call's function and arguments
Snapshot(o, a) ==
    [recording |-> TRUE, op |-> o, args |-> a,
     carts |-> carts, wallet |-> wallet, address |-> address]

InitStore ==
    /\ products = [id \in KnownProducts |-> IF id = "p1" THEN 2 ELSE 1]
    /\ carts = {}
    /\ wallet = InitWallet
    /\ address \in Addresses
    /\ nCreated = 0
    /\ pc = [p \in Procs |-> "idle"]
    /\ op = [p \in Procs |-> "none"]
    /\ args = [p \in Procs |-> NoArgs]
    /\ user = [p \in Procs |-> Null]
    /\ cartDoc = [p \in Procs |-> Null]
    /\ productDoc = [p \in Procs |-> Null]
    /\ cartItems = [p \in Procs |-> <<>>]
    /\ res = [p \in Procs |-> NoRes]

\* requests of one user arriving concurrently
Init == InitStore /\ before = Off

\* requests of one user arriving one after the other
InitSeq == InitStore /\ before = Snapshot("none", NoArgs)

(* --------------------- request life cycle ------------------------------ *)
\* a caller invokes service function o with arguments a
Begin(p, o, a) ==
    /\ pc[p] = "idle"
    /\ op' = [op EXCEPT ![p] = o]
    /\ IF Recording
       THEN /\ \A q \in Procs : pc[q] = "idle"
            /\ before' = Snapshot(o, a)
       ELSE UNCHANGED before

\* the call settles with r: the handler's documents go out of scope
Settle(p, r) ==
    /\ pc' = [pc EXCEPT ![p] = "done"]
    /\ res' = [res EXCEPT ![p] = r]
    /\ args' = [args EXCEPT ![p] = NoArgs]
    /\ user' = [user EXCEPT ![p] = Null]
    /\ cartDoc' = [cartDoc EXCEPT ![p] = Null]
    /\ productDoc' = [productDoc EXCEPT ![p] = Null]
    /\ cartItems' = [cartItems EXCEPT ![p] = <<>>]

\* the handler waits at its next store access with cart document doc
Await(p, label, doc) ==
    /\ pc' = [pc EXCEPT ![p] = label]
    /\ cartDoc' = [cartDoc EXCEPT ![p] = doc]
    /\ UNCHANGED res

\* the caller has taken the result; the slot is free for the next request
Return(p) ==
    /\ pc[p] = "done"
    /\ pc' = [pc EXCEPT ![p] = "idle"]
    /\ op' = [op EXCEPT ![p] = "none"]
    /\ res' = [res EXCEPT ![p] = NoRes]
    /\ UNCHANGED <<store, args, user, cartDoc, productDoc, cartItems, before>>

(* -------------------------- getCartByUser ------------------------------ *)
\* faulty variant of GetCartByUser: a user without a cart is given an empty one
GetCartOrCreate(p) ==
    /\ Begin(p, "getCartByUser", NoArgs)
    /\ \E CartDoc \in FindOneCart(UserEmail) :
          IF CartDoc = Null
          THEN /\ Settle(p, Ok(CartOf(UserId, UserEmail, <<>>)))
               /\ carts' = SaveCart(CartOf(UserId, UserEmail, <<>>))
          ELSE /\ Settle(p, Ok(CartDoc))
               /\ UNCHANGED carts
    /\ UNCHANGED <<products, wallet, address, nCreated>>

GetCartByUser(p) ==
    /\ Begin(p, "getCartByUser", NoArgs)
    /\ \E CartDoc \in FindOneCart(UserEmail) :
          IF CartDoc = Null
          THEN Settle(p, ApiError("NOT_FOUND", "User does not have a cart"))
          ELSE Settle(p, Ok(CartDoc))
    /\ UNCHANGED store

(* ------------------------- addProductToCart ---------------------------- *)
\* the two reads, the checks and the push, up to Cart.create or CartDoc.save
AddProductToCart(p) ==
    \E productId \in ProductIds, quantity \in Quantities :
      /\ Begin(p, "addProductToCart", [productId |-> productId, quantity |-> quantity])
      /\ LET a == [productId |-> productId, quantity |-> quantity] IN
         \E CartDoc \in FindOneCart(UserEmail) :
         LET ProductDoc == FindProductById(productId)
         IN IF ProductMissing(ProductDoc)
            THEN Settle(p, ApiError("BAD_REQUEST", "Product doesn't exist in database"))
            ELSE IF CartDoc = Null
            THEN /\ Await(p, "create", Null)
                 /\ args' = [args EXCEPT ![p] = a]
                 /\ productDoc' = [productDoc EXCEPT ![p] = ProductDoc]
                 /\ UNCHANGED <<user, cartItems>>
            ELSE IF HasProduct(CartDoc.cartItems, productId)
            THEN Settle(p, ApiError("BAD_REQUEST",
                    "Product already in cart. Use the cart sidebar to update or remove product from cart"))
            ELSE /\ Await(p, "save",
                          [CartDoc EXCEPT !.cartItems = Append(@, Item(ProductDoc, quantity))])
                 /\ args' = [args EXCEPT ![p] = a]
                 /\ UNCHANGED <<user, productDoc, cartItems>>
      /\ UNCHANGED store

\* faulty variant of NewCartDoc: no _id is given, the store generates a fresh one
NewCartDocFreshId(p) ==
    CartOf(p, UserEmail, <<Item(productDoc[p], args[p].quantity)>>)

\* the document handed to Cart.create
NewCartDoc(p) ==
    CartOf(UserId, UserEmail, <<Item(productDoc[p], args[p].quantity)>>)

\* const productToCartDoc = await Cart.create({...}) and the check of its result
AddCreate(p) ==
    /\ op[p] = "addProductToCart" /\ pc[p] = "create"
    /\ \/ /\ CanCreate(NewCartDoc(p))
          /\ carts' = carts \cup {NewCartDoc(p)}
          /\ nCreated' = nCreated + 1
          /\ Await(p, "saveCreated", NewCartDoc(p))
          /\ UNCHANGED <<products, wallet, address, call, args, user, productDoc, cartItems>>
       \/ \* the create is rejected by the store
          /\ Settle(p, StoreError)
          /\ UNCHANGED <<store, call>>
       \/ \* the create resolves to nothing
          /\ Settle(p, ApiError("INTERNAL_SERVER_ERROR", "Cart creation fails"))
          /\ UNCHANGED <<store, call>>

\* someDoc.save() of a cart document, and the return of the document
SaveAndReturn(p) ==
    \/ /\ carts' = SaveCart(cartDoc[p])
       /\ Settle(p, Ok(cartDoc[p]))
       /\ UNCHANGED <<products, wallet, address, nCreated, call>>
    \/ /\ Settle(p, StoreError)
       /\ UNCHANGED <<store, call>>

\* return await productToCartDoc.save()
AddSaveCreated(p) ==
    /\ op[p] = "addProductToCart" /\ pc[p] = "saveCreated"
    /\ SaveAndReturn(p)

\* await CartDoc.save(); return CartDoc
AddSave(p) ==
    /\ op[p] = "addProductToCart" /\ pc[p] = "save"
    /\ SaveAndReturn(p)

(* ------------------------ updateProductInCart -------------------------- *)
\* faulty variant of UpdateProductInCart: the product is looked up and checked
\* before the cart, as addProductToCart does
UpdateProductInCartProductFirst(p) ==
    \E productId \in ProductIds, quantity \in Quantities :
      /\ Begin(p, "updateProductInCart", [productId |-> productId, quantity |-> quantity])
      /\ \E userCart \in FindOneCart(UserEmail) :
         IF ProductMissing(FindProductById(productId))
         THEN Settle(p, ApiError("BAD_REQUEST", "Product doesn't exist in database"))
         ELSE IF userCart = Null
         THEN Settle(p, ApiError("BAD_REQUEST",
                 "User does not have a cart. Use POST to create cart and add a product"))
         ELSE IF ~HasProduct(userCart.cartItems, productId)
         THEN Settle(p, ApiError("BAD_REQUEST", "Product not in cart"))
         ELSE /\ Await(p, "save",
                       [userCart EXCEPT !.cartItems = SetQuantity(@, productId, quantity)])
              /\ args' = [args EXCEPT ![p] = [productId |-> productId, quantity |-> quantity]]
              /\ UNCHANGED <<user, productDoc, cartItems>>
      /\ UNCHANGED store

\* the two reads, the checks and the change of the quantity, up to the save
UpdateProductInCart(p) ==
    \E productId \in ProductIds, quantity \in Quantities :
      /\ Begin(p, "updateProductInCart", [productId |-> productId, quantity |-> quantity])
      /\ \E userCart \in FindOneCart(UserEmail) :
         IF userCart = Null
         THEN Settle(p, ApiError("BAD_REQUEST",
                 "User does not have a cart. Use POST to create cart and add a product"))
         ELSE IF ProductMissing(FindProductById(productId))
         THEN Settle(p, ApiError("BAD_REQUEST", "Product doesn't exist in database"))
         ELSE IF ~HasProduct(userCart.cartItems, productId)
         THEN Settle(p, ApiError("BAD_REQUEST", "Product not in cart"))
         ELSE /\ Await(p, "save",
                       [userCart EXCEPT !.cartItems = SetQuantity(@, productId, quantity)])
              /\ args' = [args EXCEPT ![p] = [productId |-> productId, quantity |-> quantity]]
              /\ UNCHANGED <<user, productDoc, cartItems>>
      /\ UNCHANGED store

\* const result = await userCart.save(); return result
UpdateSave(p) ==
    /\ op[p] = "updateProductInCart" /\ pc[p] = "save"
    /\ SaveAndReturn(p)

(* ----------------------- deleteProductFromCart ------------------------- *)
\* the read, the checks and the splice, up to the save
DeleteProductFromCart(p) ==
    \E productId \in ProductIds :
      /\ Begin(p, "deleteProductFromCart", [productId |-> productId, quantity |-> 0])
      /\ \E userCart \in FindOneCart(UserEmail) :
         IF userCart = Null
         THEN Settle(p, ApiError("BAD_REQUEST",
                 "User does not have a cart. Use POST to create cart and add a product"))
         ELSE IF ~HasProduct(userCart.cartItems, productId)
         THEN Settle(p, ApiError("BAD_REQUEST", "Product not in cart"))
         ELSE /\ Await(p, "save",
                       [userCart EXCEPT !.cartItems = Splice(@, MatchIndex(@, productId))])
              /\ args' = [args EXCEPT ![p] = [productId |-> productId, quantity |-> 0]]
              /\ UNCHANGED <<user, productDoc, cartItems>>
      /\ UNCHANGED store

\* faulty variant of DeleteSave: a cart left without items is removed from the store
DeleteSaveDropsEmpty(p) ==
    /\ op[p] = "deleteProductFromCart" /\ pc[p] = "save"
    /\ carts' = IF cartDoc[p].cartItems = <<>>
                THEN {c \in carts : c.id # cartDoc[p].id}
                ELSE SaveCart(cartDoc[p])
    /\ Settle(p, Ok(cartDoc[p]))
    /\ UNCHANGED <<products, wallet, address, nCreated, call>>

\* const result = await userCart.save(); return result
DeleteSave(p) ==
    /\ op[p] = "deleteProductFromCart" /\ pc[p] = "save"
    /\ SaveAndReturn(p)

(* ------------------------------ checkout ------------------------------- *)
\* the user document the caller hands to checkout: the persisted user as read
\* when the request was authenticated
LoadUser == [id |-> UserId, email |-> UserEmail,
             walletMoney |-> wallet, address |-> address]

\* checkout(user) is called
Checkout(p) ==
    /\ Begin(p, "checkout", NoArgs)
    /\ user' = [user EXCEPT ![p] = LoadUser]
    /\ pc' = [pc EXCEPT ![p] = "findCart"]
    /\ UNCHANGED <<store, args, cartDoc, productDoc, cartItems, res>>

\* faulty variant of CheckoutFindCart: the cart is emptied and saved before the
\* balance is checked
CheckoutFindCartClearsFirst(p) ==
    /\ op[p] = "checkout" /\ pc[p] = "findCart"
    /\ \E userCart \in FindOneCart(user[p].email) :
          IF CheckoutError(user[p], userCart) = NoRes
          THEN /\ user' = [user EXCEPT ![p].walletMoney = @ - Total(userCart.cartItems)]
               /\ cartItems' = [cartItems EXCEPT ![p] = userCart.cartItems]
               /\ Await(p, "saveCart", [userCart EXCEPT !.cartItems = <<>>])
               /\ UNCHANGED <<store, args, productDoc>>
          ELSE /\ Settle(p, CheckoutError(user[p], userCart))
               /\ carts' = IF CheckoutError(user[p], userCart).message
                                = "Wallet balance is insufficient"
                           THEN SaveCart([userCart EXCEPT !.cartItems = <<>>])
                           ELSE carts
               /\ UNCHANGED <<products, wallet, address, nCreated>>
    /\ UNCHANGED call

\* await getCartByUser(user), the checks, the total and the changes of the two
\* in-memory documents, up to the first save
CheckoutFindCart(p) ==
    /\ op[p] = "checkout" /\ pc[p] = "findCart"
    /\ \E userCart \in FindOneCart(user[p].email) :
          IF CheckoutError(user[p], userCart) # NoRes
          THEN Settle(p, CheckoutError(user[p], userCart))
          ELSE /\ user' = [user EXCEPT ![p].walletMoney = @ - Total(userCart.cartItems)]
               /\ cartItems' = [cartItems EXCEPT ![p] = userCart.cartItems]
               /\ Await(p, "saveCart", [userCart EXCEPT !.cartItems = <<>>])
               /\ UNCHANGED <<args, productDoc>>
    /\ UNCHANGED <<store, call>>

\* await userCart.save()
CheckoutSaveCart(p) ==
    /\ op[p] = "checkout" /\ pc[p] = "saveCart"
    /\ \/ /\ carts' = SaveCart(cartDoc[p])
          /\ Await(p, "saveUser", cartDoc[p])
          /\ UNCHANGED <<products, wallet, address, nCreated, call, args, user, productDoc, cartItems>>
       \/ /\ Settle(p, StoreError)
          /\ UNCHANGED <<store, call>>

\* await user.save(); return user
CheckoutSaveUser(p) ==
    /\ op[p] = "checkout" /\ pc[p] = "saveUser"
    /\ \/ /\ wallet' = user[p].walletMoney
          /\ address' = user[p].address
          /\ Settle(p, Ok(user[p]))
          /\ UNCHANGED <<products, carts, nCreated, call>>
       \/ /\ Settle(p, StoreError)
          /\ UNCHANGED <<store, call>>

(* ------------------------------ catalog -------------------------------- *)
\* the owner of the catalog gives a product another cost
UpdateProductCost ==
    \E id \in KnownProducts, cost \in Costs :
        /\ cost # products[id]
        /\ products' = [products EXCEPT ![id] = cost]
        /\ UNCHANGED <<carts, wallet, address, nCreated,
                       pc, op, args, user, cartDoc, productDoc, cartItems, res, before>>

(* --------------------------- specification ----------------------------- *)
Next ==
    \E p \in Procs :
        \/ GetCartByUser(p)
        \/ AddProductToCart(p)
        \/ AddCreate(p)
        \/ AddSaveCreated(p)
        \/ AddSave(p)
        \/ UpdateProductInCart(p)
        \/ UpdateSave(p)
        \/ DeleteProductFromCart(p)
        \/ DeleteSave(p)
        \/ Checkout(p)
        \/ CheckoutFindCart(p)
        \/ CheckoutSaveCart(p)
        \/ CheckoutSaveUser(p)
        \/ Return(p)

\* concurrent requests
Spec == Init /\ [][Next]_vars

\* one request at a time, with the history of the running call
SpecSeq == InitSeq /\ [][Next]_vars

\* one request at a time, while the catalog changes the costs of its products
NextCatalog == Next \/ UpdateProductCost
SpecCatalog == InitSeq /\ [][NextCatalog]_vars

(* ------------------------------ properties ----------------------------- *)
\* the user has a cart in store cs
HasCartIn(cs) == \E c \in cs : c.email = UserEmail

\* the line items of the user's cart in store cs (no cart: no items)
ItemsIn(cs) ==
    IF HasCartIn(cs) THEN (CHOOSE c \in cs : c.email = UserEmail).cartItems ELSE <<>>

Checkouts == {p \in Procs : op[p] = "checkout"}
Returned(p) == pc[p] = "done"
Failed(p) == Returned(p) /\ res[p].status # "OK"
Rejected(p) == Returned(p) /\ res[p].status \in {"NOT_FOUND", "BAD_REQUEST"}

\* C1: checkout settlement is all-or-nothing. When a checkout has returned,
\* the persisted wallet is debited exactly when the persisted cart was cleared,
\* and a checkout that failed has persisted neither write.
C1_CheckoutAllOrNothing ==
    \A p \in Checkouts :
        Returned(p) =>
            /\ (wallet # before.wallet) <=> (carts # before.carts)
            /\ Failed(p) => (wallet = before.wallet /\ carts = before.carts)

\* C2: every persisted cart holds at most one line item per product id.
C2_UniqueLineItems ==
    \A c \in carts :
        \A i, j \in 1..Len(c.cartItems) :
            c.cartItems[i].product.id = c.cartItems[j].product.id => i = j

\* a cart with two line items while an add was refused as a duplicate
C2_Witness ==
    /\ \E c \in carts : Len(c.cartItems) = 2
    /\ \E p \in Procs :
          /\ Returned(p) /\ op[p] = "addProductToCart"
          /\ res[p].message =
               "Product already in cart. Use the cart sidebar to update or remove product from cart"

\* the line items of products other than productId, in their order
Others(items, productId) ==
    LET Other(item) == item.product.id # productId
    IN SelectSeq(items, Other)

\* C3: no lost update. A successful write of an add, update or delete of one
\* product leaves the persisted line items of every other product as they
\* were persisted just before the write: what a concurrent operation wrote
\* since this one read the cart is not dropped (nor brought back).
C3_NoLostUpdate ==
    [][\A p \in Procs :
          (pc[p] = "save" /\ pc'[p] = "done" /\ res'[p].status = "OK")
              => Others(ItemsIn(carts'), args[p].productId)
                   = Others(ItemsIn(carts), args[p].productId)]_vars

\* C4: no partial commit of a checkout is observable. Between the two writes
\* of a checkout the store never shows the cart emptied with the wallet still
\* undebited.
C4_NoPartialCommitObservable ==
    \A p \in Checkouts :
        ~ /\ pc[p] = "saveUser"
          /\ HasCartIn(carts) /\ ItemsIn(carts) = <<>>
          /\ wallet > user[p].walletMoney

\* the sum over the line items of quantity times cost
RECURSIVE LineSum(_)
LineSum(items) ==
    IF Len(items) = 0 THEN 0
    ELSE Head(items).quantity * Head(items).product.cost + LineSum(Tail(items))

\* the preconditions of checkout hold in the store the call found
CheckoutReady ==
    /\ HasCartIn(before.carts) /\ ItemsIn(before.carts) # <<>>
    /\ before.address # DefaultAddress
    /\ before.wallet >= LineSum(ItemsIn(before.carts))

\* C5: a checkout whose preconditions hold succeeds (unless the store rejects
\* a write); then the wallet is the old wallet minus the total of the cart,
\* the cart exists with no line items, and the updated user is returned.
C5_CheckoutEffect ==
    \A p \in Checkouts :
        (Returned(p) /\ CheckoutReady) =>
            /\ res[p].status \in {"OK", "STORE_ERROR"}
            /\ res[p].status = "OK" =>
                  /\ wallet = before.wallet - LineSum(ItemsIn(before.carts))
                  /\ HasCartIn(carts) /\ ItemsIn(carts) = <<>>
                  /\ res[p].value.id = UserId
                  /\ res[p].value.walletMoney = wallet

\* a successful checkout of a cart with two line items
C5_Witness ==
    \E p \in Checkouts :
        /\ Returned(p) /\ res[p].status = "OK"
        /\ Len(ItemsIn(before.carts)) = 2
        /\ wallet < before.wallet

\* the error the first failing precondition of checkout stands for, in the
\* order cart exists, cart has an item, address set, balance sufficient
FirstFailingCheck ==
    IF ~HasCartIn(before.carts)
    THEN ApiError("NOT_FOUND", "User does not have a cart")
    ELSE IF Len(ItemsIn(before.carts)) = 0
    THEN ApiError("BAD_REQUEST", "User's cart doesn't have any product")
    ELSE IF before.address = DefaultAddress
    THEN ApiError("BAD_REQUEST", "Address not set")
    ELSE IF before.wallet < LineSum(ItemsIn(before.carts))
    THEN ApiError("BAD_REQUEST", "Wallet balance is insufficient")
    ELSE NoRes

\* C6: a checkout that fails a precondition returns the error of the first
\* failing check, and a checkout returns such an error only then.
C6_CheckoutFirstFailingCheck ==
    \A p \in Checkouts :
        Returned(p) =>
            /\ FirstFailingCheck # NoRes => res[p] = FirstFailingCheck
            /\ Rejected(p) => res[p] = FirstFailingCheck

\* the address is the default and the balance is short: the address decides
C6_Witness ==
    \E p \in Checkouts :
        /\ Returned(p)
        /\ before.address = DefaultAddress
        /\ before.wallet < LineSum(ItemsIn(before.carts))
        /\ res[p].message = "Address not set"

\* C7: a checkout that fails a precondition leaves the wallet and the cart as
\* the call found them.
C7_FailedCheckoutFrame ==
    \A p \in Checkouts :
        Rejected(p) => (wallet = before.wallet /\ carts = before.carts)

\* a checkout refused for its balance, on a cart with line items
C7_Witness ==
    \E p \in Checkouts :
        /\ Returned(p)
        /\ res[p].message = "Wallet balance is insufficient"
        /\ ItemsIn(carts) # <<>>

\* C8: the user owns at most one cart, and at most one creation ever succeeds.
C8_AtMostOneCart ==
    /\ Cardinality({c \in carts : c.email = UserEmail}) <= 1
    /\ nCreated <= 1

\* two adds both found no cart; one has created it, the other is about to try
C8_Witness ==
    \E p, q \in Procs :
        /\ pc[p] = "saveCreated" /\ pc[q] = "create"
        /\ nCreated = 1

UnknownProductCall(p) ==
    /\ pc[p] # "idle"
    /\ op[p] \in {"addProductToCart", "updateProductInCart"}
    /\ before.args.productId \notin DOMAIN products

\* C10: an add or update of a product that is not in the catalog fails with
\* BAD_REQUEST at once and changes no cart: none is created, none is modified.
C10_UnknownProductRejected ==
    \A p \in Procs :
        UnknownProductCall(p) =>
            /\ Returned(p) /\ res[p].status = "BAD_REQUEST"
            /\ carts = before.carts

\* an add of an unknown product returned for a user who still has no cart
C10_Witness ==
    \E p \in Procs :
        /\ UnknownProductCall(p) /\ op[p] = "addProductToCart"
        /\ res[p].message = "Product doesn't exist in database"
        /\ carts = {}

\* the running call is o and has returned in slot p (calls made one at a time)
ReturnedFrom(p, o) == Returned(p) /\ op[p] = o

\* product id is a line item of the cart the running call found
InCartBefore(productId) ==
    \E i \in 1..Len(ItemsIn(before.carts)) :
        ItemsIn(before.carts)[i].product.id = productId

DuplicateMessage ==
    "Product already in cart. Use the cart sidebar to update or remove product from cart"

\* C11 as stated: adding a product that is already a line item fails with the
\* kind Conflict, a status of its own, and the cart is as the call found it.
C11_DuplicateAddIsConflict ==
    \A p \in Procs :
        (ReturnedFrom(p, "addProductToCart") /\ InCartBefore(before.args.productId)) =>
            /\ res[p].status = "CONFLICT"
            /\ carts = before.carts

\* C11 as amended: adding a product that is already a line item fails with
\* BAD_REQUEST, the status of the invalid-input failures, and the duplicate
\* message; the cart keeps its line items exactly as the call found them.
C11_DuplicateAddRejected ==
    \A p \in Procs :
        (ReturnedFrom(p, "addProductToCart") /\ InCartBefore(before.args.productId)) =>
            /\ res[p] = ApiError("BAD_REQUEST", DuplicateMessage)
            /\ carts = before.carts

\* the second of two line items is added again, with another quantity
C11_Witness ==
    \E p \in Procs :
        /\ ReturnedFrom(p, "addProductToCart")
        /\ Len(ItemsIn(before.carts)) = 2
        /\ ItemsIn(before.carts)[2].product.id = before.args.productId
        /\ ItemsIn(before.carts)[2].quantity # before.args.quantity
        /\ res[p].message = DuplicateMessage

\* C12: a successful update of a line item leaves the number, order and
\* products of the line items, gives the matching one the new quantity and
\* every other one its old quantity; an update of a product in the cart
\* succeeds unless the store rejects the write.
C12_UpdateReplacesQuantity ==
    \A p \in Procs :
        ReturnedFrom(p, "updateProductInCart") =>
            LET old == ItemsIn(before.carts)
                new == ItemsIn(carts)
                a == before.args
            IN /\ InCartBefore(a.productId) => res[p].status \in {"OK", "STORE_ERROR"}
               /\ res[p].status = "OK" =>
                     /\ InCartBefore(a.productId)
                     /\ Len(new) = Len(old)
                     /\ \A i \in 1..Len(old) :
                           /\ new[i].product = old[i].product
                           /\ new[i].quantity =
                                IF old[i].product.id = a.productId
                                THEN a.quantity ELSE old[i].quantity
                     /\ res[p].value.cartItems = new

\* a line item of quantity 1 among two is updated to quantity 2
C12_Witness ==
    \E p \in Procs :
        /\ ReturnedFrom(p, "updateProductInCart") /\ res[p].status = "OK"
        /\ Len(ItemsIn(before.carts)) = 2
        /\ \E i \in 1..2 : /\ ItemsIn(before.carts)[i].product.id = before.args.productId
                           /\ ItemsIn(before.carts)[i].quantity = 1
                           /\ ItemsIn(carts)[i].quantity = 2

\* C13: a successful delete removes exactly the line item of the given product:
\* the cart is one shorter and holds every other line item, in the same order.
C13_DeleteRemovesMatch ==
    \A p \in Procs :
        ReturnedFrom(p, "deleteProductFromCart") =>
            LET old == ItemsIn(before.carts)
                new == ItemsIn(carts)
                a == before.args
            IN /\ InCartBefore(a.productId) => res[p].status \in {"OK", "STORE_ERROR"}
               /\ res[p].status = "OK" =>
                     /\ InCartBefore(a.productId)
                     /\ Len(new) = Len(old) - 1
                     /\ new = Others(old, a.productId)

\* the first of two line items of equal quantity is deleted
C13_Witness ==
    \E p \in Procs :
        /\ ReturnedFrom(p, "deleteProductFromCart") /\ res[p].status = "OK"
        /\ Len(ItemsIn(before.carts)) = 2
        /\ ItemsIn(before.carts)[1].product.id = before.args.productId
        /\ ItemsIn(before.carts)[1].quantity = ItemsIn(before.carts)[2].quantity
        /\ Len(ItemsIn(carts)) = 1

\* p's checkout is at its user.save() and the step persists the user record
UserSaved(p) ==
    /\ op[p] = "checkout" /\ pc[p] = "saveUser"
    /\ pc'[p] = "done" /\ res'[p].status = "OK"

\* C14: over any interleaving of requests, each checkout working on the user
\* record it was called with, the persisted wallet balance never increases, and
\* it changes only when a checkout persists its user record.
C14_WalletNeverIncreases ==
    [][/\ wallet' <= wallet
       /\ wallet' # wallet => \E p \in Procs : UserSaved(p)]_vars

\* C15: the persisted wallet balance is non-negative in every reachable state,
\* for any interleaving of requests.
C15_WalletNonNegative == wallet >= 0

\* a checkout whose total is the whole balance has returned
C15_Witness ==
    \E p \in Procs :
        /\ Returned(p) /\ op[p] = "checkout" /\ res[p].status = "OK"
        /\ wallet = 0

\* C16: getCartByUser fails with NOT_FOUND exactly when the user has no cart
\* and otherwise returns the stored cart; it changes no cart, user or catalog
\* state, so a repeated call returns the same cart.
C16_GetCartReadOnly ==
    /\ products = [id \in KnownProducts |-> IF id = "p1" THEN 2 ELSE 1]
    /\ \A p \in Procs :
         ReturnedFrom(p, "getCartByUser") =>
            /\ carts = before.carts
            /\ wallet = before.wallet
            /\ address = before.address
            /\ IF HasCartIn(before.carts)
               THEN /\ res[p].status = "OK"
                    /\ res[p].value \in carts
                    /\ res[p].value.email = UserEmail
               ELSE res[p] = ApiError("NOT_FOUND", "User does not have a cart")

\* the cart of two line items is returned
C16_Witness ==
    \E p \in Procs :
        /\ ReturnedFrom(p, "getCartByUser") /\ res[p].status = "OK"
        /\ Len(res[p].value.cartItems) = 2
        /\ res[p].value.cartItems = ItemsIn(carts)

\* p's addProductToCart is at its Cart.create and the step ends the call
CreateFailed(p) ==
    /\ op[p] = "addProductToCart" /\ pc[p] = "create"
    /\ pc'[p] = "done"

\* C17: when the user has no cart and the creation of the cart fails, the add
\* fails with INTERNAL_SERVER_ERROR and leaves no cart created.
C17_CreateFailureIsInternal ==
    [][\A p \in Procs :
          CreateFailed(p) =>
             /\ res'[p].status = "INTERNAL_SERVER_ERROR"
             /\ carts' = carts]_vars

\* the line items priced at the costs the catalog has now
RECURSIVE CatalogSum(_)
CatalogSum(items) ==
    IF Len(items) = 0 THEN 0
    ELSE Head(items).quantity * products[Head(items).product.id]
         + CatalogSum(Tail(items))

\* C18: a successful checkout debits the sum of quantity times the cost each
\* line item captured when it was added, whatever the catalog says now.
C18_CheckoutUsesCapturedCost ==
    \A p \in Procs :
        (ReturnedFrom(p, "checkout") /\ res[p].status = "OK") =>
            /\ wallet = before.wallet - LineSum(ItemsIn(before.carts))
            /\ res[p].value.walletMoney = wallet

\* a checkout has paid for a cart whose price at the present catalog costs
\* differs from its price at the captured costs
C18_Witness ==
    \E p \in Procs :
        /\ ReturnedFrom(p, "checkout") /\ res[p].status = "OK"
        /\ CatalogSum(ItemsIn(before.carts)) # LineSum(ItemsIn(before.carts))
        /\ wallet = before.wallet - LineSum(ItemsIn(before.carts))

NoCartMessage == "User does not have a cart. Use POST to create cart and add a product"
NoProductMessage == "Product doesn't exist in database"
NotInCartMessage == "Product not in cart"

\* the message of the first check of updateProductInCart that fails in the
\* store the call found: cart, then catalog, then line items ("" when none)
FirstFailingUpdateCheck ==
    IF ~HasCartIn(before.carts) THEN NoCartMessage
    ELSE IF before.args.productId \notin KnownProducts THEN NoProductMessage
    ELSE IF ~InCartBefore(before.args.productId) THEN NotInCartMessage
    ELSE ""

\* C19: updateProductInCart fails with the error of the first failing check
\* in the order cart exists, product in the catalog, product in the cart, and
\* passes them when none fails; addProductToCart rejects an unknown product
\* whether or not the user has a cart, and creates none.
C19_UpdateCheckOrder ==
    \A p \in Procs :
        /\ ReturnedFrom(p, "updateProductInCart") =>
              IF FirstFailingUpdateCheck # ""
              THEN /\ res[p] = ApiError("BAD_REQUEST", FirstFailingUpdateCheck)
                   /\ carts = before.carts
              ELSE res[p].status \in {"OK", "STORE_ERROR"}
        /\ (ReturnedFrom(p, "addProductToCart") /\ before.args.productId \notin KnownProducts) =>
              /\ res[p] = ApiError("BAD_REQUEST", NoProductMessage)
              /\ carts = before.carts

\* an update of an unknown product for a user without a cart is told about
\* the cart
C19_Witness ==
    \E p \in Procs :
        /\ ReturnedFrom(p, "updateProductInCart")
        /\ ~HasCartIn(before.carts)
        /\ before.args.productId \notin KnownProducts
        /\ res[p].message = NoCartMessage

\* p's checkout is at its userCart.save() and the step persists the emptied cart
CartCleared(p) ==
    /\ op[p] = "checkout" /\ pc[p] = "saveCart"
    /\ pc'[p] = "saveUser"

\* C20: the line items a checkout removes from the persisted cart when it
\* writes the emptied cart are the line items it read and priced, whatever
\* other requests persisted in between.
C20_ClearedItemsWerePriced ==
    [][\A p \in Procs :
          CartCleared(p) => /\ ItemsIn(carts') = <<>>
                            /\ ItemsIn(carts) = cartItems[p]]_vars

====
